---- MODULE Spec2Model ----
(***************************************************************************)
(* A model of the azure-pipelines-ecs-controller-lambda handler: an SQS    *)
(* batch is decoded message by message, an ECS Fargate task is launched    *)
(* per message, its status is polled until RUNNING or STOPPED and the      *)
(* outcome is posted back to Azure DevOps.                                 *)
(*                                                                         *)
(* Go strings are TLA+ strings; their bytes are reached with SubSeq and    *)
(* the Ascii table below.  A 32-bit word is a sequence of 32 bits, most    *)
(* significant first, because the model checker's integers are narrower    *)
(* than an unsigned 32-bit word.                                           *)
(***************************************************************************)
EXTENDS Integers, Sequences, FiniteSets, TLC

----------------------------------------------------------------------------
(* Strings and bytes *)

\* The printable ASCII characters, code 32 (space) to 126 (~), in order.  Code
\* 96 (the grave accent) cannot be written in a string here; its entry matches
\* no character.
Ascii ==
  << " ", "!", "\"", "#", "$", "%", "&", "'", "(", ")", "*", "+", ",", "-",
     ".", "/", "0", "1", "2", "3", "4", "5", "6", "7", "8", "9", ":", ";",
     "<", "=", ">", "?", "@", "A", "B", "C", "D", "E", "F", "G", "H", "I",
     "J", "K", "L", "M", "N", "O", "P", "Q", "R", "S", "T", "U", "V", "W",
     "X", "Y", "Z", "[", "\\", "]", "^", "_", "<96>", "a", "b", "c", "d", "e",
     "f", "g", "h", "i", "j", "k", "l", "m", "n", "o", "p", "q", "r", "s",
     "t", "u", "v", "w", "x", "y", "z", "{", "|", "}", "~" >>

\* The byte of a one-character string.
Ord(c) == 31 + (CHOOSE i \in 1..Len(Ascii) : Ascii[i] = c)

\* []byte(s): the bytes of a string.
Bytes(s) == [i \in 1..Len(s) |-> Ord(SubSeq(s, i, i))]

RECURSIVE Pow2(_)
Pow2(n) == IF n = 0 THEN 1 ELSE 2 * Pow2(n - 1)

----------------------------------------------------------------------------
(* encoding/base64, StdEncoding *)

\* The standard base64 alphabet, index 0 first.
encodeStd ==
  << "A", "B", "C", "D", "E", "F", "G", "H", "I", "J", "K", "L", "M", "N",
     "O", "P", "Q", "R", "S", "T", "U", "V", "W", "X", "Y", "Z", "a", "b",
     "c", "d", "e", "f", "g", "h", "i", "j", "k", "l", "m", "n", "o", "p",
     "q", "r", "s", "t", "u", "v", "w", "x", "y", "z", "0", "1", "2", "3",
     "4", "5", "6", "7", "8", "9", "+", "/" >>

B64Char(v) == encodeStd[v + 1]

\* base64.StdEncoding.EncodeToString: three bytes give four characters; a
\* last group of one or two bytes is padded with "=".
RECURSIVE EncodeToString(_)
EncodeToString(src) ==
  IF Len(src) = 0 THEN ""
  ELSE IF Len(src) = 1 THEN
    B64Char(src[1] \div 4) \o B64Char((src[1] % 4) * 16) \o "=="
  ELSE IF Len(src) = 2 THEN
    B64Char(src[1] \div 4)
      \o B64Char((src[1] % 4) * 16 + src[2] \div 16)
      \o B64Char((src[2] % 16) * 4) \o "="
  ELSE
    B64Char(src[1] \div 4)
      \o B64Char((src[1] % 4) * 16 + src[2] \div 16)
      \o B64Char((src[2] % 16) * 4 + src[3] \div 64)
      \o B64Char(src[3] % 64)
      \o EncodeToString(SubSeq(src, 4, Len(src)))

----------------------------------------------------------------------------
(* crypto/sha256.  A 32-bit word is <<hi, lo>>, its two 16-bit halves. *)

\* Bitwise exclusive or, and, of two n-bit numbers.
RECURSIVE BitXor(_, _, _)
BitXor(a, b, n) ==
  IF n = 0 THEN 0
  ELSE (((a % 2) + (b % 2)) % 2) + 2 * BitXor(a \div 2, b \div 2, n - 1)

RECURSIVE BitAnd(_, _, _)
BitAnd(a, b, n) ==
  IF n = 0 THEN 0
  ELSE ((a % 2) * (b % 2)) + 2 * BitAnd(a \div 2, b \div 2, n - 1)

Xor(x, y) == <<BitXor(x[1], y[1], 16), BitXor(x[2], y[2], 16)>>
And(x, y) == <<BitAnd(x[1], y[1], 16), BitAnd(x[2], y[2], 16)>>
Not(x) == <<65535 - x[1], 65535 - x[2]>>

\* Addition modulo 2^32.
Add(x, y) ==
  LET lo == x[2] + y[2]
      hi == x[1] + y[1] + lo \div 65536
  IN  <<hi % 65536, lo % 65536>>

\* bits.RotateLeft32(x, -n) and x >> n, for 0 < n < 32.
RotR(x, n) ==
  LET w == IF n >= 16 THEN <<x[2], x[1]>> ELSE x
      m == n % 16
  IN  IF m = 0 THEN w
      ELSE <<w[1] \div Pow2(m) + (w[2] % Pow2(m)) * Pow2(16 - m),
             w[2] \div Pow2(m) + (w[1] % Pow2(m)) * Pow2(16 - m)>>

ShR(x, n) ==
  IF n >= 16 THEN <<0, x[1] \div Pow2(n - 16)>>
  ELSE <<x[1] \div Pow2(n),
         x[2] \div Pow2(n) + (x[1] % Pow2(n)) * Pow2(16 - n)>>

\* The round constants and the initial hash value of SHA-256.
sha256K ==
  <<
    <<17034, 12184>>, <<28983, 17553>>, <<46528, 64463>>, <<59829, 56229>>,
    <<14678, 49755>>, <<23025, 4593>>, <<37439, 33444>>, <<43804, 24277>>,
    <<55303, 43672>>, <<4739, 23297>>, <<9265, 34238>>, <<21772, 32195>>,
    <<29374, 23924>>, <<32990, 45566>>, <<39900, 1703>>, <<49563, 61812>>,
    <<58523, 27073>>, <<61374, 18310>>, <<4033, 40390>>, <<9228, 41420>>,
    <<11753, 11375>>, <<19060, 33962>>, <<23728, 43484>>, <<30457, 35034>>,
    <<38974, 20818>>, <<43057, 50797>>, <<45059, 10184>>, <<48985, 32711>>,
    <<50912, 3059>>, <<54695, 37191>>, <<1738, 25425>>, <<5161, 10599>>,
    <<10167, 2693>>, <<11803, 8504>>, <<19756, 28156>>, <<21304, 3347>>,
    <<25866, 29524>>, <<30314, 2747>>, <<33218, 51502>>, <<37490, 11397>>,
    <<41663, 59553>>, <<43034, 26187>>, <<49739, 35696>>, <<51052, 20899>>,
    <<53650, 59417>>, <<54937, 1572>>, <<62478, 13701>>, <<4202, 41072>>,
    <<6564, 49430>>, <<7735, 27656>>, <<10056, 30540>>, <<13488, 48309>>,
    <<14620, 3251>>, <<20184, 43594>>, <<23452, 51791>>, <<26670, 28659>>,
    <<29839, 33518>>, <<30885, 25455>>, <<33992, 30740>>, <<36039, 520>>,
    <<37054, 65530>>, <<42064, 27883>>, <<48889, 41975>>, <<50801, 30962>>
  >>

sha256Init ==
  <<
    <<27145, 58983>>, <<47975, 44677>>, <<15470, 62322>>, <<42319, 62778>>,
    <<20750, 21119>>, <<39685, 26764>>, <<8067, 55723>>, <<23520, 52505>>
  >>

\* The message followed by 0x80, zero bytes up to 56 modulo 64, and the
\* length in bits as eight big-endian bytes.
sha256Pad(msg) ==
  LET len == Len(msg)
      zeros == (119 - (len % 64)) % 64
      bits == len * 8
  IN  msg \o <<128>> \o [i \in 1..zeros |-> 0]
          \o <<0, 0, 0, 0, (bits \div 16777216) % 256, (bits \div 65536) % 256,
               (bits \div 256) % 256, bits % 256>>

\* The message schedule of one 64-byte block p: 16 words read big-endian, then
\* 48 words each derived from four earlier ones.
RECURSIVE sha256Schedule(_)
sha256Schedule(w) ==
  IF Len(w) = 64 THEN w
  ELSE LET i == Len(w) + 1
           v1 == w[i - 2]
           t1 == Xor(Xor(RotR(v1, 17), RotR(v1, 19)), ShR(v1, 10))
           v2 == w[i - 15]
           t2 == Xor(Xor(RotR(v2, 7), RotR(v2, 18)), ShR(v2, 3))
       IN  sha256Schedule(Append(w, Add(Add(Add(t1, w[i - 7]), t2), w[i - 16])))

sha256Words(p) ==
  sha256Schedule([i \in 1..16 |->
    <<p[4 * i - 3] * 256 + p[4 * i - 2], p[4 * i - 1] * 256 + p[4 * i]>>])

\* Rounds i..64 of the compression function on the working variables
\* s = <<a, b, c, d, e, f, g, h>>.  (Len(s) is read first so that each round's
\* variables are computed before the next round starts.)
RECURSIVE sha256Rounds(_, _, _)
sha256Rounds(s, w, i) ==
  IF Len(s) # 8 \/ i > 64 THEN s
  ELSE LET a == s[1]
           e == s[5]
           t1 == Add(Add(Add(Add(s[8],
                   Xor(Xor(RotR(e, 6), RotR(e, 11)), RotR(e, 25))),
                   Xor(And(e, s[6]), And(Not(e), s[7]))),
                   sha256K[i]), w[i])
           t2 == Add(Xor(Xor(RotR(a, 2), RotR(a, 13)), RotR(a, 22)),
                   Xor(Xor(And(a, s[2]), And(a, s[3])), And(s[2], s[3])))
       IN  sha256Rounds(<<Add(t1, t2), a, s[2], s[3], Add(s[4], t1), e, s[6], s[7]>>,
                        w, i + 1)

\* The hash after the blocks of p, from the hash h before them.
RECURSIVE sha256Blocks(_, _)
sha256Blocks(h, p) ==
  IF Len(p) = 0 THEN h
  ELSE LET s == sha256Rounds(h, sha256Words(SubSeq(p, 1, 64)), 1)
       IN  sha256Blocks(<<Add(h[1], s[1]), Add(h[2], s[2]), Add(h[3], s[3]),
                          Add(h[4], s[4]), Add(h[5], s[5]), Add(h[6], s[6]),
                          Add(h[7], s[7]), Add(h[8], s[8])>>,
                        SubSeq(p, 65, Len(p)))

\* sha256.Sum256: the 32 bytes of the digest.
Sum256(data) ==
  LET h == sha256Blocks(sha256Init, sha256Pad(data))
  IN  [i \in 1..32 |->
        LET x == h[(i + 3) \div 4]
            k == (i - 1) % 4
        IN  IF k = 0 THEN x[1] \div 256
            ELSE IF k = 1 THEN x[1] % 256
            ELSE IF k = 2 THEN x[2] \div 256
            ELSE x[2] % 256]

----------------------------------------------------------------------------
(* GenerateClientToken *)

\* A token that is the base64 text of the input itself, cut to 64 characters.
GenerateClientTokenNoHash(input) ==
  LET encoded == EncodeToString(Bytes(input))
  IN  IF Len(encoded) > 64 THEN SubSeq(encoded, 1, 64) ELSE encoded

\* The base64 text of the SHA-256 digest of the input, cut to 64 characters.
GenerateClientToken(input) ==
  LET hash == Sum256(Bytes(input))
      encoded == EncodeToString(hash)
  IN  IF Len(encoded) > 64 THEN SubSeq(encoded, 1, 64) ELSE encoded

----------------------------------------------------------------------------
(* Bounds and the inputs the model draws *)

\* The longest batch of messages one invocation receives.
MaxRecords == 2

\* The most times, within one invocation, the backend answers a status query
\* with a status that is neither RUNNING nor STOPPED.
MaxWaits == 2

\* The longest of the short seeds a client token is generated from.
MaxSeedLen == 5

\* The seeds: every string of at most MaxSeedLen of the characters below,
\* and one that fills more than one 64-byte block of the digest.
SeedChars == {"a", "~"}
RECURSIVE ShortSeeds(_)
ShortSeeds(n) ==
  IF n = 0 THEN {""}
  ELSE LET shorter == ShortSeeds(n - 1)
       IN  shorter \cup {s \o c : s \in shorter, c \in SeedChars}
LongPrefix ==
  "eyJ0eXAiOiJKV1QiLCJhbGciOiJSUzI1NiJ9.eyJuYW1laWQiOiJjMGZmZWUiLCJzY3AiOiJhcHAifQ."
Seeds == ShortSeeds(MaxSeedLen) \cup {LongPrefix}

\* Invocations of the handler in one process.
Invocations == {1, 2}

\* Two process environments with every required variable set: one leaves the
\* optional variables unset, one sets them.
EnvDefault ==
  [ECS_CLUSTER |-> "agents", ECS_TASK_DEFINITION |-> "ado-agent:3",
   SUBNET_IDS |-> "subnet-1,subnet-2", SECURITY_GROUP_IDS |-> "sg-1",
   ADO_DOMAIN |-> "", ADO_ORG |-> "myorg", ADO_API_VERSION |-> "",
   ADO_AUTH_USERNAME |-> ""]

EnvCustom ==
  [ECS_CLUSTER |-> "agents", ECS_TASK_DEFINITION |-> "ado-agent:3",
   SUBNET_IDS |-> "subnet-1,subnet-2", SECURITY_GROUP_IDS |-> "sg-1",
   ADO_DOMAIN |-> "ado.example.com", ADO_ORG |-> "contoso",
   ADO_API_VERSION |-> "7.0", ADO_AUTH_USERNAME |-> "bot"]

Envs == {EnvDefault, EnvCustom}

\* The environments a process may be started in: each variable is set as in
\* EnvCustom or is unset.
StartEnvs ==
  {[n \in DOMAIN EnvCustom |-> IF n \in set THEN EnvCustom[n] ELSE ""] :
     set \in SUBSET DOMAIN EnvCustom}

\* A message body is the JSON document its text holds, or "malformed" for a
\* text that is no JSON document.  An object's members map keys to values.
JString(s) == [json |-> "string", s |-> s]
JNumber == [json |-> "number"]
JNull == [json |-> "null"]
JObject(m) == [json |-> "object", members |-> m]
Malformed == [json |-> "malformed"]

BodyA ==
  JObject([PlanUrl |-> JString("https://dev.azure.com/myorg/"),
           PlanId |-> JString("PLAN1"), ProjectId |-> JString("P1"),
           HubName |-> JString("build"), JobId |-> JString("J1"),
           TimelineId |-> JString("TL1"), TaskInstanceId |-> JString("T1"),
           AuthToken |-> JString("abc123")])

BodyB ==
  JObject([PlanUrl |-> JString("https://dev.azure.com/myorg/"),
           PlanId |-> JString("PLAN2"), ProjectId |-> JString("P2"),
           HubName |-> JString("checks"), JobId |-> JString("J2"),
           TimelineId |-> JString("TL2"), TaskInstanceId |-> JString("T2"),
           AuthToken |-> JString("tok~2")])

\* An object whose AuthToken is a number, and the empty object.
BodyBadType == JObject([PlanId |-> JString("PLAN3"), AuthToken |-> JNumber])
BodyEmpty == JObject([x \in {} |-> JNull])

Bodies == {Malformed, JNull, BodyBadType, BodyA, BodyB}

\* The batches of at most MaxRecords messages.
Events == UNION {[1..n -> Bodies] : n \in 0..MaxRecords}

\* The batches of one message that two invocations of one process receive:
\* a message may come again after the invocation that had it.
DeliveredBodies == {JNull, BodyEmpty, BodyA, BodyB}
DeliveredEvents == {<<body>> : body \in DeliveredBodies}

\* The task identifier the backend gives a launched task.
TaskARNs == {"arn:aws:ecs:eu-west-1:111122223333:task/agents/0a1b"}

\* The last statuses the backend reports: the two that end polling, and the
\* others in the order of a task's life.  The n-th answer of an invocation
\* that is none of the two carries the n-th of the others.
TerminalStatuses == {"RUNNING", "STOPPED"}
OtherStatuses == <<"PROVISIONING", "PENDING", "ACTIVATING", "DEACTIVATING">>
OtherStatus(n) == OtherStatuses[(n % Len(OtherStatuses)) + 1]

\* What the backend answers to RunTask: an error, no task, or one task.
RunTaskOutputs ==
  {[err |-> "RunTask: operation error", Tasks |-> <<>>],
   [err |-> "", Tasks |-> <<>>]}
  \cup {[err |-> "", Tasks |-> <<[TaskArn |-> a]>>] : a \in TaskARNs}

\* What the backend answers to DescribeTasks after n answers that did not end
\* polling: an error, no task, or one task with its last status.
DescribeTasksOutputs(n) ==
  {[err |-> "DescribeTasks: operation error", Tasks |-> <<>>],
   [err |-> "", Tasks |-> <<>>]}
  \cup {[err |-> "", Tasks |-> <<[LastStatus |-> s]>>] :
          s \in TerminalStatuses \cup
                  (IF n < MaxWaits THEN {OtherStatus(n)} ELSE {})}

\* What http.Client.Do gives: a transport error, or a response with a status
\* code and a body that can or cannot be read to its end.
HTTPResponses ==
  {[err |-> "connection refused", StatusCode |-> 0, Body |-> "", readErr |-> ""]}
  \cup {[err |-> "", StatusCode |-> c, Body |-> "{}", readErr |-> ""] :
          c \in {199, 200, 399, 400, 500}}
  \cup {[err |-> "", StatusCode |-> 200, Body |-> "{}",
         readErr |-> "unexpected EOF"]}

----------------------------------------------------------------------------
(* Configuration: ECSTaskConfig, ADOConfig and the environment *)

\* os.Getenv
Getenv(e, name) == e[name]

\* A ReadRequiredEnvVar that returns the empty value instead of exiting.
ReadRequiredEnvVarNoExit(e, name) ==
  [value |-> Getenv(e, name), exit |-> FALSE]

\* ReadRequiredEnvVar: the value; an empty or unset value ends the process
\* with status 1 (exit |-> TRUE).
ReadRequiredEnvVar(e, name) ==
  LET value == Getenv(e, name)
  IN  [value |-> value, exit |-> value = ""]

\* ReadEnvVarWithDefault
ReadEnvVarWithDefault(e, name, defaultVal) ==
  LET value == Getenv(e, name)
  IN  IF value = "" THEN defaultVal ELSE value

\* strings.Split(s, sep) for a one-character separator.
RECURSIVE Split(_, _)
Split(s, sep) ==
  LET at == {i \in 1..Len(s) : SubSeq(s, i, i) = sep}
  IN  IF at = {} THEN <<s>>
      ELSE LET i == CHOOSE j \in at : \A m \in at : j <= m
           IN  <<SubSeq(s, 1, i - 1)>> \o Split(SubSeq(s, i + 1, Len(s)), sep)

\* ECSTaskConfig.ReadFromEnv on a new(ECSTaskConfig)
ECSTaskConfigReadFromEnv(e) ==
  [Cluster |-> ReadRequiredEnvVar(e, "ECS_CLUSTER").value,
   TaskDefinition |-> ReadRequiredEnvVar(e, "ECS_TASK_DEFINITION").value,
   ClientToken |-> "",
   Subnets |-> Split(ReadRequiredEnvVar(e, "SUBNET_IDS").value, ","),
   SecurityGroups |->
     Split(ReadRequiredEnvVar(e, "SECURITY_GROUP_IDS").value, ",")]

\* ADOConfig.ReadFromEnv on an allocated ADOConfig
ADOConfigReadFromEnv(e) ==
  LET adoDomain == ReadEnvVarWithDefault(e, "ADO_DOMAIN", "dev.azure.com")
      adoOrg == ReadRequiredEnvVar(e, "ADO_ORG").value
  IN  [Instance |-> adoDomain \o "/" \o adoOrg,
       APIVersion |-> ReadEnvVarWithDefault(e, "ADO_API_VERSION", "7.1-preview.3"),
       AuthUsername |->
         ReadEnvVarWithDefault(e, "ADO_AUTH_USERNAME", "ado-callback")]

\* The nil *ECSTaskConfig and *ADOConfig the package variables start as, and
\* the zero ECSTaskConfig new(ECSTaskConfig) gives.
NilConfig == [nil |-> TRUE]
ZeroECSTaskConfig ==
  [Cluster |-> "", TaskDefinition |-> "", ClientToken |-> "",
   Subnets |-> <<>>, SecurityGroups |-> <<>>]

\* The variables ReadRequiredEnvVar is called for, in the order of the calls.
RequiredEnvVars ==
  <<"ECS_CLUSTER", "ECS_TASK_DEFINITION", "SUBNET_IDS", "SECURITY_GROUP_IDS",
    "ADO_ORG">>

\* ECSTaskConfig.ReadFromEnv as init() runs it: the fields are set one after
\* the other, and the first required variable that is missing ends the
\* process there (exit), leaving the later fields as they were.
ECSTaskConfigReadFromEnvSteps(config, e) ==
  LET cluster == ReadRequiredEnvVar(e, "ECS_CLUSTER")
      taskDefinition == ReadRequiredEnvVar(e, "ECS_TASK_DEFINITION")
      subnetIDsStr == ReadRequiredEnvVar(e, "SUBNET_IDS")
      securityGroupIDsStr == ReadRequiredEnvVar(e, "SECURITY_GROUP_IDS")
      c1 == [config EXCEPT !.Cluster = cluster.value]
      c2 == [c1 EXCEPT !.TaskDefinition = taskDefinition.value]
      c3 == [c2 EXCEPT !.Subnets = Split(subnetIDsStr.value, ",")]
      c4 == [c3 EXCEPT !.SecurityGroups = Split(securityGroupIDsStr.value, ",")]
  IN  IF cluster.exit THEN [config |-> config, exit |-> TRUE]
      ELSE IF taskDefinition.exit THEN [config |-> c1, exit |-> TRUE]
      ELSE IF subnetIDsStr.exit THEN [config |-> c2, exit |-> TRUE]
      ELSE IF securityGroupIDsStr.exit THEN [config |-> c3, exit |-> TRUE]
      ELSE [config |-> c4, exit |-> FALSE]

\* ADOConfig.ReadFromEnv called on the receiver config: the two reads of the
\* environment come first, and a missing ADO_ORG ends the process (exit);
\* then the write of config.Instance dereferences the receiver, which panics
\* when it is nil.
ADOConfigReadFromEnvSteps(config, e) ==
  LET adoOrg == ReadRequiredEnvVar(e, "ADO_ORG")
  IN  IF adoOrg.exit THEN [config |-> config, exit |-> TRUE, panic |-> FALSE]
      ELSE IF config = NilConfig
      THEN [config |-> config, exit |-> FALSE, panic |-> TRUE]
      ELSE [config |-> ADOConfigReadFromEnv(e), exit |-> FALSE, panic |-> FALSE]

\* The authorization tokens of the bodies the model draws, and the client
\* token GenerateClientToken gives each, computed once.
AuthTokens == {"", "abc123", "tok~2"}
ClientTokens == {<<s, GenerateClientToken(s)>> : s \in AuthTokens}
ClientTokenOf(s) == (CHOOSE p \in ClientTokens : p[1] = s)[2]

\* A SetClientToken that marks every token after the configuration's first.
SetClientTokenNonce(config, input) ==
  [config EXCEPT !.ClientToken =
     ClientTokenOf(input) \o (IF config.ClientToken = "" THEN "" ELSE "+1")]

\* ECSTaskConfig.SetClientToken
SetClientToken(config, input) ==
  [config EXCEPT !.ClientToken = ClientTokenOf(input)]

\* ADOConfig.GetAuth: base64 of "<AuthUsername>:<token>".
GetAuthOf(username, token) ==
  LET authStr == username \o ":" \o token
  IN  EncodeToString(Bytes(authStr))

\* GetAuthOf for the user names and tokens the model draws, computed once.
AuthUsernames == {ADOConfigReadFromEnv(e).AuthUsername : e \in Envs}
AuthValues ==
  {<<u, t, GetAuthOf(u, t)>> : u \in AuthUsernames, t \in AuthTokens}

GetAuth(config, token) ==
  (CHOOSE p \in AuthValues : p[1] = config.AuthUsername /\ p[2] = token)[3]

----------------------------------------------------------------------------
(* ADOPayload and json.Unmarshal *)

\* The nil *ADOPayload.
NilPayload == [nil |-> TRUE]

\* The zero ADOPayload.
ZeroPayload ==
  [PlanURL |-> "", PlanID |-> "", ProjectID |-> "", HubName |-> "",
   JobID |-> "", TimelineID |-> "", TaskInstanceID |-> "", AuthToken |-> ""]

\* The json key of each field of ADOPayload.
PayloadKeys ==
  [PlanURL |-> "PlanUrl", PlanID |-> "PlanId", ProjectID |-> "ProjectId",
   HubName |-> "HubName", JobID |-> "JobId", TimelineID |-> "TimelineId",
   TaskInstanceID |-> "TaskInstanceId", AuthToken |-> "AuthToken"]

\* json.Unmarshal of a JSON document into a nil *ADOPayload: null leaves the
\* pointer nil without an error; an object fills the fields whose keys it
\* holds with string values and reports a type error for a member of another
\* type; any other document is a type error.
UnmarshalDocument(body) ==
  IF body.json = "null" THEN
    [err |-> "", payload |-> NilPayload]
  ELSE IF body.json = "object" THEN
    LET m == body.members
        has(f) == PayloadKeys[f] \in DOMAIN m
        val(f) == IF has(f) /\ m[PayloadKeys[f]].json = "string"
                  THEN m[PayloadKeys[f]].s ELSE ""
        bad == \E f \in DOMAIN PayloadKeys :
                 has(f) /\ m[PayloadKeys[f]].json \notin {"string", "null"}
    IN  [err |-> IF bad THEN "json: cannot unmarshal" ELSE "",
         payload |-> [f \in DOMAIN PayloadKeys |-> val(f)]]
  ELSE
    [err |-> "json: cannot unmarshal", payload |-> ZeroPayload]

\* A decoder that takes a text that is no JSON for an empty object.
UnmarshalLenient(body) ==
  IF body.json = "malformed" THEN [err |-> "", payload |-> ZeroPayload]
  ELSE UnmarshalDocument(body)

\* json.Unmarshal([]byte(record.Body), &payload): a text that is no JSON gives
\* a syntax error and leaves the pointer nil.
Unmarshal(body) ==
  IF body.json = "malformed" THEN
    [err |-> "invalid character", payload |-> NilPayload]
  ELSE UnmarshalDocument(body)

\* An events URL with the hub name and the plan identifier exchanged.
ADOEventsURLSwapped(payload, instance, apiVersion) ==
  "https://" \o instance \o "/" \o payload.ProjectID
    \o "/_apis/distributedtask/hubs/" \o payload.PlanID
    \o "/plans/" \o payload.HubName
    \o "/events?api-version=" \o apiVersion

\* ADOPayload.ADOEventsURL
ADOEventsURL(payload, instance, apiVersion) ==
  "https://" \o instance \o "/" \o payload.ProjectID
    \o "/_apis/distributedtask/hubs/" \o payload.HubName
    \o "/plans/" \o payload.PlanID
    \o "/events?api-version=" \o apiVersion

----------------------------------------------------------------------------
(* The calls to the compute backend and to the callback endpoint *)

\* RunFargateTask: the RunTaskInput built from the configuration.
RunTaskInput(config) ==
  [Cluster |-> config.Cluster,
   TaskDefinition |-> config.TaskDefinition,
   Count |-> 1,
   LaunchType |-> "FARGATE",
   PropagateTags |-> "TASK_DEFINITION",
   EnableECSManagedTags |-> TRUE,
   EnableExecuteCommand |-> TRUE,
   ClientToken |-> config.ClientToken,
   Subnets |-> config.Subnets,
   SecurityGroups |-> config.SecurityGroups,
   AssignPublicIp |-> "ENABLED"]

\* GetTaskLastStatus: the DescribeTasksInput built from an ECSTaskReadConfig.
DescribeTasksInput(config) ==
  [Cluster |-> config.Cluster, Tasks |-> <<config.TaskARN>>]

\* A GetTaskLastStatus that reports an answer without a task as an empty
\* status.  Below it, GetTaskLastStatus: the status and error returned for
\* the backend's answer.

GetTaskLastStatusNoTaskIsNoStatus(config, result) ==
  IF result.err # "" THEN [status |-> "", err |-> result.err]
  ELSE IF Len(result.Tasks) > 0 THEN
    [status |-> result.Tasks[1].LastStatus, err |-> ""]
  ELSE [status |-> "", err |-> ""]

GetTaskLastStatus(config, result) ==
  IF result.err # "" THEN [status |-> "", err |-> result.err]
  ELSE IF Len(result.Tasks) > 0 THEN
    [status |-> result.Tasks[1].LastStatus, err |-> ""]
  ELSE [status |-> "", err |-> "failed to describe task " \o config.TaskARN]

\* ADOCallback up to http.NewRequest: the POST request it builds.  The body
\* is the map given to json.Marshal, which cannot fail on a map of strings;
\* http.NewRequest accepts every URL built from the strings drawn here.
ADOCallbackRequest(config) ==
  LET token == GetAuth(config.Config, config.Payload.AuthToken)
  IN  [Method |-> "POST",
       URL |-> ADOEventsURL(config.Payload, config.Config.Instance,
                            config.Config.APIVersion),
       Header |-> [Accept |-> "application/json",
                   Authorization |-> "Bearer " \o token],
       Body |-> [name |-> "TaskCompleted",
                 jobId |-> config.Payload.JobID,
                 taskId |-> config.Payload.TaskInstanceID,
                 result |-> config.Result]]

\* A readResponse that rejects status 399.
readResponseOffByOne(res) ==
  IF res.StatusCode < 200 \/ res.StatusCode >= 399 THEN
    [data |-> "", err |-> "unexpected status code: " \o ToString(res.StatusCode)]
  ELSE IF res.readErr # "" THEN
    [data |-> "", err |-> "failed to read response body: " \o res.readErr]
  ELSE [data |-> res.Body, err |-> ""]

\* readResponse
readResponse(res) ==
  IF res.StatusCode < 200 \/ res.StatusCode > 399 THEN
    [data |-> "", err |-> "unexpected status code: " \o ToString(res.StatusCode)]
  ELSE IF res.readErr # "" THEN
    [data |-> "", err |-> "failed to read response body: " \o res.readErr]
  ELSE [data |-> res.Body, err |-> ""]

\* ADOCallback from client.Do on: the data and error it returns.
ADOCallbackResult(res) ==
  IF res.err # "" THEN
    [data |-> "", err |-> "failed to execute HTTP request: " \o res.err]
  ELSE readResponse(res)

----------------------------------------------------------------------------
(* State *)

VARIABLES
  env,             \* the process environment
  taskCfg,         \* the package variable taskCfg (*ECSTaskConfig)
  adoCfg,          \* the package variable adoCfg (*ADOConfig)
  pc,              \* per invocation: where handler stands
  records,         \* per invocation: event.Records, the message bodies
  idx,             \* per invocation: the index of the record in the loop
  payload,         \* per invocation: the local payload (*ADOPayload)
  taskARN,         \* per invocation: the local taskARN
  runTaskOutcome,  \* per invocation: the local runTaskOutcome
  waits,           \* per invocation: sleeps taken so far
  err,             \* per invocation: the error handler returned ("" is nil)
  log,             \* every call made to the backend, the endpoint and Sleep
  initPc,          \* where init() stands
  exitStatus,      \* <<>> while the process lives, else <<its exit status>>
  cancelled        \* per invocation: ctx.Done() is closed

vars ==
  <<env, taskCfg, adoCfg, pc, records, idx, payload, taskARN, runTaskOutcome,
    waits, err, log, initPc, exitStatus, cancelled>>

cfgVars == <<env, taskCfg, adoCfg>>
procVars == <<initPc, exitStatus>>

\* One call as the log keeps it.
Call(name, k, input, out) ==
  [call |-> name, inv |-> k, rec |-> idx[k], input |-> input, out |-> out]

\* A handler that logs an error and goes on with the next record.
ReturnContinue(k, e) ==
  IF e # "" /\ idx[k] < Len(records[k])
  THEN /\ pc' = [pc EXCEPT ![k] = "decode"]
       /\ idx' = [idx EXCEPT ![k] = @ + 1]
       /\ UNCHANGED err
  ELSE /\ pc' = [pc EXCEPT ![k] = "returned"]
       /\ err' = [err EXCEPT ![k] = e]
       /\ UNCHANGED idx

\* A handler that logs an error and returns nil.
ReturnNil(k, e) ==
  /\ pc' = [pc EXCEPT ![k] = "returned"]
  /\ err' = [err EXCEPT ![k] = ""]
  /\ UNCHANGED idx

\* A handler that tries the record again after an error.
ReturnRetry(k, e) ==
  IF e # ""
  THEN /\ pc' = [pc EXCEPT ![k] = "decode"]
       /\ UNCHANGED <<idx, err>>
  ELSE /\ pc' = [pc EXCEPT ![k] = "returned"]
       /\ err' = [err EXCEPT ![k] = e]
       /\ UNCHANGED idx

\* handler returns e: the loop over the records ends where it stands.
Return(k, e) ==
  /\ pc' = [pc EXCEPT ![k] = "returned"]
  /\ err' = [err EXCEPT ![k] = e]
  /\ UNCHANGED idx

\* handler panics with e.
Panic(k, e) ==
  /\ pc' = [pc EXCEPT ![k] = "panicked"]
  /\ err' = [err EXCEPT ![k] = e]
  /\ UNCHANGED idx

\* An outcome that starts as "succeeded".
InitialOutcomeSucceeded == "succeeded"

\* Line 70: the outcome before the first status query.
InitialOutcome == "failed"

\* A polling loop that gives up, with the outcome it has, when a status that
\* is neither RUNNING nor STOPPED comes after a wait.
PollStepAtMostOneWait(taskStatus, outcome) ==
  IF taskStatus = "RUNNING" THEN [runTaskOutcome |-> "succeeded", break |-> TRUE]
  ELSE IF taskStatus = "STOPPED" THEN [runTaskOutcome |-> outcome, break |-> TRUE]
  ELSE [runTaskOutcome |-> outcome, break |-> waits[1] >= 1]

\* A polling loop that treats every status but STOPPED as RUNNING.
PollStepAnyIsRunning(taskStatus, outcome) ==
  IF taskStatus = "STOPPED" THEN [runTaskOutcome |-> outcome, break |-> TRUE]
  ELSE [runTaskOutcome |-> "succeeded", break |-> TRUE]

\* Lines 81-88: what one observed status does to the outcome, and whether it
\* ends the polling loop.
PollStep(taskStatus, outcome) ==
  IF taskStatus = "RUNNING" THEN [runTaskOutcome |-> "succeeded", break |-> TRUE]
  ELSE IF taskStatus = "STOPPED" THEN [runTaskOutcome |-> outcome, break |-> TRUE]
  ELSE [runTaskOutcome |-> outcome, break |-> FALSE]

\* The state handler is written for: taskCfg and adoCfg hold what their
\* ReadFromEnv methods read from the environment, and no invocation has begun.
\* This is the state init() is written to leave; the steps init() takes are
\* those of SpecStart below, where they end before this state is reached.
Init ==
  /\ env \in Envs
  /\ taskCfg = ECSTaskConfigReadFromEnv(env)
  /\ adoCfg = ADOConfigReadFromEnv(env)
  /\ pc = [k \in Invocations |-> "idle"]
  /\ records = [k \in Invocations |-> <<>>]
  /\ idx = [k \in Invocations |-> 0]
  /\ payload = [k \in Invocations |-> NilPayload]
  /\ taskARN = [k \in Invocations |-> ""]
  /\ runTaskOutcome = [k \in Invocations |-> ""]
  /\ waits = [k \in Invocations |-> 0]
  /\ err = [k \in Invocations |-> ""]
  /\ log = <<>>
  /\ initPc = "done"
  /\ exitStatus = <<>>
  /\ cancelled = [k \in Invocations |-> FALSE]

----------------------------------------------------------------------------
(* handler, step by step *)

\* The runtime calls handler(ctx, event); an empty batch returns nil at once.
Invoke(k, event) ==
  /\ pc[k] = "idle"
  /\ records' = [records EXCEPT ![k] = event]
  /\ IF Len(event) = 0
     THEN Return(k, "")
     ELSE /\ pc' = [pc EXCEPT ![k] = "decode"]
          /\ idx' = [idx EXCEPT ![k] = 1]
          /\ UNCHANGED err
  /\ UNCHANGED <<cfgVars, payload, taskARN, runTaskOutcome, waits, log>>
  /\ UNCHANGED <<procVars, cancelled>>

\* Lines 51-58: decode the record's body; on success set the client token
\* from payload.AuthToken, which panics on a nil payload.
Decode(k) ==
  /\ pc[k] = "decode"
  /\ LET r == Unmarshal(records[k][idx[k]])
     IN  /\ payload' = [payload EXCEPT ![k] = r.payload]
         /\ IF r.err # ""
            THEN Return(k, r.err) /\ UNCHANGED taskCfg
            ELSE IF r.payload = NilPayload
            THEN Panic(k, "nil pointer dereference") /\ UNCHANGED taskCfg
            ELSE /\ taskCfg' = SetClientToken(taskCfg, r.payload.AuthToken)
                 /\ pc' = [pc EXCEPT ![k] = "launch"]
                 /\ UNCHANGED <<idx, err>>
  /\ UNCHANGED <<env, adoCfg, records, taskARN, runTaskOutcome, waits, log>>
  /\ UNCHANGED <<procVars, cancelled>>

\* Lines 60-70: launch the task; result is the backend's answer.  Reading
\* result.Tasks[0] panics when no task came back.
Launch(k, result) ==
  /\ pc[k] = "launch"
  /\ log' = Append(log, Call("RunTask", k, RunTaskInput(taskCfg), result))
  /\ IF result.err # ""
     THEN Return(k, result.err) /\ UNCHANGED <<taskARN, runTaskOutcome, waits>>
     ELSE IF Len(result.Tasks) = 0
     THEN /\ Panic(k, "index out of range [0] with length 0")
          /\ UNCHANGED <<taskARN, runTaskOutcome, waits>>
     ELSE /\ taskARN' = [taskARN EXCEPT ![k] = result.Tasks[1].TaskArn]
          /\ runTaskOutcome' = [runTaskOutcome EXCEPT ![k] = InitialOutcome]
          /\ pc' = [pc EXCEPT ![k] = "poll"]
          /\ UNCHANGED <<idx, waits, err>>
  /\ UNCHANGED <<cfgVars, records, payload>>
  /\ UNCHANGED <<procVars, cancelled>>

\* Lines 72-86: one status query and the decision on its answer.
Poll(k, result) ==
  /\ pc[k] = "poll"
  /\ LET config == [Cluster |-> taskCfg.Cluster, TaskARN |-> taskARN[k]]
         r == GetTaskLastStatus(config, result)
     IN  /\ log' = Append(log, Call("DescribeTasks", k, DescribeTasksInput(config), result))
         /\ IF r.err # ""
            THEN Return(k, r.err) /\ UNCHANGED runTaskOutcome
            ELSE LET step == PollStep(r.status, runTaskOutcome[k])
                 IN  /\ runTaskOutcome' =
                          [runTaskOutcome EXCEPT ![k] = step.runTaskOutcome]
                     /\ pc' = [pc EXCEPT ![k] =
                                 IF step.break THEN "callback" ELSE "sleep"]
                     /\ UNCHANGED <<idx, err>>
  /\ UNCHANGED <<cfgVars, records, payload, taskARN, waits>>
  /\ UNCHANGED <<procVars, cancelled>>

\* Line 87: time.Sleep(1 * time.Second), then the loop queries again.
Sleep(k) ==
  /\ pc[k] = "sleep"
  /\ log' = Append(log, Call("Sleep", k, 1, 0))
  /\ waits' = [waits EXCEPT ![k] = @ + 1]
  /\ pc' = [pc EXCEPT ![k] = "poll"]
  /\ UNCHANGED <<cfgVars, records, idx, payload, taskARN, runTaskOutcome, err>>
  /\ UNCHANGED <<procVars, cancelled>>

\* Lines 91-104: send the callback; res is what client.Do gives.  On success
\* the loop takes the next record, or handler returns nil after the last.
Callback(k, res) ==
  /\ pc[k] = "callback"
  /\ LET config == [Config |-> adoCfg, Payload |-> payload[k],
                    Result |-> runTaskOutcome[k]]
         r == ADOCallbackResult(res)
     IN  /\ log' = Append(log, Call("POST", k, ADOCallbackRequest(config), res))
         /\ IF r.err # ""
            THEN Return(k, r.err) /\ UNCHANGED payload
            ELSE IF idx[k] < Len(records[k])
            THEN /\ idx' = [idx EXCEPT ![k] = @ + 1]
                 /\ payload' = [payload EXCEPT ![k] = NilPayload]
                 /\ pc' = [pc EXCEPT ![k] = "decode"]
                 /\ UNCHANGED err
            ELSE Return(k, "") /\ UNCHANGED payload
  /\ UNCHANGED <<cfgVars, records, taskARN, runTaskOutcome, waits>>
  /\ UNCHANGED <<procVars, cancelled>>

\* One invocation of handler, from the call to its return.
Next ==
  \/ \E event \in Events : Invoke(1, event)
  \/ Decode(1)
  \/ \E result \in RunTaskOutputs : Launch(1, result)
  \/ \E result \in DescribeTasksOutputs(waits[1]) : Poll(1, result)
  \/ Sleep(1)
  \/ \E res \in HTTPResponses : Callback(1, res)

Spec == Init /\ [][Next]_vars

----------------------------------------------------------------------------
(* init(), step by step *)

\* The process before init(): the package variables are nil pointers.
InitStart ==
  /\ env \in StartEnvs
  /\ taskCfg = NilConfig
  /\ adoCfg = NilConfig
  /\ pc = [k \in Invocations |-> "idle"]
  /\ records = [k \in Invocations |-> <<>>]
  /\ idx = [k \in Invocations |-> 0]
  /\ payload = [k \in Invocations |-> NilPayload]
  /\ taskARN = [k \in Invocations |-> ""]
  /\ runTaskOutcome = [k \in Invocations |-> ""]
  /\ waits = [k \in Invocations |-> 0]
  /\ err = [k \in Invocations |-> ""]
  /\ log = <<>>
  /\ initPc = "start"
  /\ exitStatus = <<>>
  /\ cancelled = [k \in Invocations |-> FALSE]

handlerVars ==
  <<pc, records, idx, payload, taskARN, runTaskOutcome, waits, err, log,
    cancelled>>

\* Lines 32-33: taskCfg = new(ECSTaskConfig); taskCfg.ReadFromEnv().
\* os.Exit(1) ends the process with status 1.
InitTaskCfg ==
  /\ initPc = "start"
  /\ LET r == ECSTaskConfigReadFromEnvSteps(ZeroECSTaskConfig, env)
     IN  /\ taskCfg' = r.config
         /\ IF r.exit
            THEN initPc' = "exited" /\ exitStatus' = <<1>>
            ELSE initPc' = "adoCfg" /\ UNCHANGED exitStatus
  /\ UNCHANGED <<env, adoCfg, handlerVars>>

\* Line 35: adoCfg.ReadFromEnv(), called while adoCfg is still the nil
\* pointer (line 36 allocates it afterwards).  A panic during init ends the
\* process with status 2.  Lines 36-45 are reached by no start of the
\* process.
InitAdoCfg ==
  /\ initPc = "adoCfg"
  /\ LET r == ADOConfigReadFromEnvSteps(adoCfg, env)
     IN  /\ adoCfg' = r.config
         /\ IF r.exit THEN initPc' = "exited" /\ exitStatus' = <<1>>
            ELSE IF r.panic THEN initPc' = "panicked" /\ exitStatus' = <<2>>
            ELSE initPc' = "awsCfg" /\ UNCHANGED exitStatus
  /\ UNCHANGED <<env, taskCfg, handlerVars>>

NextStart == InitTaskCfg \/ InitAdoCfg

SpecStart == InitStart /\ [][NextStart]_vars

\* One invocation with one message, under fairness: handler is one
\* goroutine that runs on once it is called, so each of its steps that can
\* be taken is taken in the end.  Nothing makes the runtime call handler.
HandlerStep ==
  \/ Decode(1)
  \/ \E result \in RunTaskOutputs : Launch(1, result)
  \/ \E result \in DescribeTasksOutputs(waits[1]) : Poll(1, result)
  \/ Sleep(1)
  \/ \E res \in HTTPResponses : Callback(1, res)

NextLive == (\E event \in DeliveredEvents : Invoke(1, event)) \/ HandlerStep

SpecLive == Init /\ [][NextLive]_vars /\ WF_vars(HandlerStep)

----------------------------------------------------------------------------
(* Two invocations in one process *)

\* The runtime calls handler again after an invocation has returned: the
\* process and its package variables are the same.
NextSeq ==
  \/ \E event \in DeliveredEvents : Invoke(1, event)
  \/ \E event \in DeliveredEvents : pc[1] = "returned" /\ Invoke(2, event)
  \/ \E k \in Invocations : Decode(k)
  \/ \E k \in Invocations : \E result \in RunTaskOutputs : Launch(k, result)
  \/ \E k \in Invocations :
       \E result \in DescribeTasksOutputs(waits[k]) : Poll(k, result)
  \/ \E k \in Invocations : Sleep(k)
  \/ \E k \in Invocations : \E res \in HTTPResponses : Callback(k, res)

SpecSeq == Init /\ [][NextSeq]_vars

\* Two invocations of handler run at the same time in one process; their
\* steps interleave, and both use the package variable taskCfg.  Each gets one
\* well-formed message; the backend launches a task or fails, reports a task
\* as RUNNING or STOPPED at the first query or fails, and the endpoint
\* answers 200 or 500, so that no invocation sleeps.
ConcurrentEvents == {<<BodyA>>, <<BodyB>>}
ConcurrentRunTaskOutputs ==
  {result \in RunTaskOutputs : result.err # "" \/ Len(result.Tasks) > 0}
ConcurrentHTTPResponses ==
  {res \in HTTPResponses :
     res.err = "" /\ res.readErr = "" /\ res.StatusCode \in {200, 500}}

NextConc ==
  \/ \E k \in Invocations : \E event \in ConcurrentEvents : Invoke(k, event)
  \/ \E k \in Invocations : Decode(k)
  \/ \E k \in Invocations :
       \E result \in ConcurrentRunTaskOutputs : Launch(k, result)
  \/ \E k \in Invocations :
       \E result \in DescribeTasksOutputs(MaxWaits) : Poll(k, result)
  \/ \E k \in Invocations :
       \E res \in ConcurrentHTTPResponses : Callback(k, res)

SpecConc == Init /\ [][NextConc]_vars

----------------------------------------------------------------------------
(* An invocation whose context is cancelled *)

\* What client.RunTask and client.DescribeTasks return when ctx is done: the
\* call is given up and the context's error comes back.
ContextCanceled == [err |-> "context canceled", Tasks |-> <<>>]

\* The runtime closes ctx.Done() of invocation k, at its deadline or on
\* SIGTERM, while handler is polling or about to send the callback.  The log
\* keeps the moment.
Cancel(k) ==
  /\ pc[k] \in {"poll", "sleep", "callback"}
  /\ ~cancelled[k]
  /\ cancelled' = [cancelled EXCEPT ![k] = TRUE]
  /\ log' = Append(log, Call("Cancel", k, 0, 0))
  /\ UNCHANGED <<cfgVars, pc, records, idx, payload, taskARN, runTaskOutcome,
                 waits, err, procVars>>

\* One invocation with one message.  handler passes ctx to RunFargateTask and
\* GetTaskLastStatus only: time.Sleep (line 87) does not look at it, and
\* ADOCallback gets no context, builds its request with http.NewRequest and
\* sends it with an http.Client without a timeout.
NextCancel ==
  \/ \E event \in DeliveredEvents : Invoke(1, event)
  \/ Decode(1)
  \/ \E result \in (IF cancelled[1] THEN {ContextCanceled} ELSE RunTaskOutputs) :
       Launch(1, result)
  \/ \E result \in (IF cancelled[1] THEN {ContextCanceled}
                     ELSE DescribeTasksOutputs(waits[1])) : Poll(1, result)
  \/ Sleep(1)
  \/ \E res \in HTTPResponses : Callback(1, res)
  \/ Cancel(1)

SpecCancel == Init /\ [][NextCancel]_vars

----------------------------------------------------------------------------
(* SetClientToken on any seed *)

\* A message whose authorization token is the seed.
SeedBody(seed) == JObject([AuthToken |-> JString(seed)])

\* The configuration as read from the environment, and a message with any
\* of the seeds.
InitToken ==
  /\ env = EnvDefault
  /\ taskCfg = ECSTaskConfigReadFromEnv(env)
  /\ adoCfg = ADOConfigReadFromEnv(env)
  /\ pc = [k \in Invocations |-> "idle"]
  /\ records \in {[k \in Invocations |-> IF k = 1 THEN <<SeedBody(seed)>> ELSE <<>>] :
                    seed \in Seeds}
  /\ idx = [k \in Invocations |-> 0]
  /\ payload = [k \in Invocations |-> NilPayload]
  /\ taskARN = [k \in Invocations |-> ""]
  /\ runTaskOutcome = [k \in Invocations |-> ""]
  /\ waits = [k \in Invocations |-> 0]
  /\ err = [k \in Invocations |-> ""]
  /\ log = <<>>
  /\ initPc = "done"
  /\ exitStatus = <<>>
  /\ cancelled = [k \in Invocations |-> FALSE]

\* Line 58 on that message: taskCfg.SetClientToken(payload.AuthToken), with
\* the token generated from the seed itself.
SetToken ==
  /\ pc[1] = "idle"
  /\ LET r == Unmarshal(records[1][1])
     IN  taskCfg' = [taskCfg EXCEPT
                       !.ClientToken = GenerateClientToken(r.payload.AuthToken)]
  /\ pc' = [pc EXCEPT ![1] = "launch"]
  /\ UNCHANGED <<env, adoCfg, records, idx, payload, taskARN,
                 runTaskOutcome, waits, err, log, procVars, cancelled>>

NextToken == SetToken

SpecToken == InitToken /\ [][NextToken]_vars

----------------------------------------------------------------------------
(* What the claims speak of *)

\* The calls of invocation k, in order.
LogOf(k) == SelectSeq(log, LAMBDA e : e.inv = k)

\* A status query the backend answered with a task, and the status it gave.
Observed(e) ==
  e.call = "DescribeTasks" /\ e.out.err = "" /\ Len(e.out.Tasks) > 0
StatusOf(e) == e.out.Tasks[1].LastStatus

\* The outcome the contract gives a status that ends polling.
OutcomeOf(status) == IF status = "RUNNING" THEN "succeeded" ELSE "failed"

\* handler has ended, by a return or a panic.
Ended(k) == pc[k] \in {"returned", "panicked"}

\* C1: polling ends only on RUNNING or STOPPED.  An observed RUNNING or
\* STOPPED is the last status query of its task and is followed by the
\* callback stage with the outcome "succeeded" for RUNNING and "failed" for
\* STOPPED; any other observed status is followed by a Sleep and then by
\* another query of the same task; and the callback stage is entered only
\* after such a status.
C1_PollingEndsOnlyOnTerminal ==
  \A k \in Invocations :
    LET L == LogOf(k)
        n == Len(L)
    IN  /\ \A j \in 1..n :
             Observed(L[j]) =>
               IF StatusOf(L[j]) \in {"RUNNING", "STOPPED"}
               THEN /\ j = n => /\ pc[k] = "callback"
                                /\ runTaskOutcome[k] = OutcomeOf(StatusOf(L[j]))
                    /\ j < n => /\ L[j + 1].call = "POST"
                                /\ L[j + 1].rec = L[j].rec
                                /\ L[j + 1].input.Body.result
                                     = OutcomeOf(StatusOf(L[j]))
               ELSE /\ j = n => pc[k] = "sleep"
                    /\ j < n => L[j + 1].call = "Sleep" /\ L[j + 1].rec = L[j].rec
                    /\ j + 1 = n => pc[k] = "poll"
                    /\ j + 1 < n => /\ L[j + 2].call = "DescribeTasks"
                                    /\ L[j + 2].rec = L[j].rec
                                    /\ L[j + 2].input = L[j].input
        /\ pc[k] = "callback" =>
             /\ n > 0
             /\ Observed(L[n])
             /\ StatusOf(L[n]) \in {"RUNNING", "STOPPED"}
        /\ \A j \in 1..n :
             L[j].call = "POST" =>
               /\ j > 1
               /\ Observed(L[j - 1])
               /\ StatusOf(L[j - 1]) \in {"RUNNING", "STOPPED"}

\* C1's case: two statuses that do not end polling, then RUNNING.
C1_Witness ==
  /\ pc[1] = "callback"
  /\ runTaskOutcome[1] = "succeeded"
  /\ Len(log) = 6
  /\ Observed(log[2]) /\ StatusOf(log[2]) = "PROVISIONING"
  /\ log[3].call = "Sleep"
  /\ Observed(log[4]) /\ StatusOf(log[4]) = "PENDING"
  /\ Observed(log[6]) /\ StatusOf(log[6]) = "RUNNING"

\* The places in the calls L of those made for record i that are call name.
CallsIn(L, i, name) == {j \in 1..Len(L) : L[j].rec = i /\ L[j].call = name}

\* A launch that gave a task.
Launched(e) == e.call = "RunTask" /\ e.out.err = "" /\ Len(e.out.Tasks) > 0

\* C2: per message the launch comes first, then one or more status queries
\* of the launched task, then the callback.  Every status query follows a
\* launch that returned the task it asks about; there is at most one launch
\* and at most one callback per message; the callback follows every query of
\* its message, the last of which observed RUNNING or STOPPED, and its result
\* field is the outcome of that status.
C2_LaunchThenPollThenCallback ==
  \A k \in Invocations :
    LET L == LogOf(k)
    IN  \A i \in 1..Len(records[k]) :
          LET launches == CallsIn(L, i, "RunTask")
              queries == CallsIn(L, i, "DescribeTasks")
              callbacks == CallsIn(L, i, "POST")
          IN
          /\ Cardinality(launches) <= 1
          /\ Cardinality(callbacks) <= 1
          /\ \A q \in queries :
               \E l \in launches :
                 /\ l < q
                 /\ Launched(L[l])
                 /\ L[q].input.Tasks = <<L[l].out.Tasks[1].TaskArn>>
          /\ \A c \in callbacks :
               /\ \A q \in queries : q < c
               /\ c - 1 \in queries
               /\ Observed(L[c - 1])
               /\ StatusOf(L[c - 1]) \in {"RUNNING", "STOPPED"}
               /\ L[c].input.Body.result = OutcomeOf(StatusOf(L[c - 1]))

\* C2's case: a message whose task was launched, queried twice and found
\* STOPPED, and whose callback said "failed".
C2_Witness ==
  /\ pc[1] = "returned"
  /\ Len(log) = 5
  /\ Launched(log[1])
  /\ Observed(log[2]) /\ log[3].call = "Sleep"
  /\ Observed(log[4]) /\ StatusOf(log[4]) = "STOPPED"
  /\ log[5].call = "POST" /\ log[5].input.Body.result = "failed"

\* A response the callback endpoint's contract counts as accepted.
Accepted(res) ==
  /\ res.err = ""
  /\ res.StatusCode >= 200 /\ res.StatusCode <= 399
  /\ res.readErr = ""

\* A call that failed: the launch or the query returned an error, the query
\* returned no task, or the callback was not accepted.
Failed(e) ==
  \/ e.call = "RunTask" /\ e.out.err # ""
  \/ e.call = "DescribeTasks" /\ (e.out.err # "" \/ Len(e.out.Tasks) = 0)
  \/ e.call = "POST" /\ ~Accepted(e.out)

\* Decoding record i of invocation k fails.
DecodeFails(k, i) == Unmarshal(records[k][i]).err # ""

\* Record i of invocation k has been decoded and decoding failed.
DecodeFailed(k, i) ==
  /\ i \in 1..Len(records[k])
  /\ DecodeFails(k, i)
  /\ idx[k] > i \/ (idx[k] = i /\ pc[k] # "decode")

\* C3: the messages are handled in the order received, one after the other,
\* and the first failure ends the invocation with an error.  The calls go
\* through the records in ascending order, beginning with the first, and move
\* to the next record only after an accepted callback; each callback carries
\* the job of the record it is made for; a failed call is the last call of
\* the invocation, which has returned an error; and no call is made for a
\* record whose decoding fails, nor for any record after it.
C3_InOrderStopAtFirstFailure ==
  \A k \in Invocations :
    LET L == LogOf(k)
        n == Len(L)
    IN  /\ n > 0 => L[1].rec = 1
        /\ \A j \in 1..(n - 1) :
             \/ L[j + 1].rec = L[j].rec
             \/ /\ L[j + 1].rec = L[j].rec + 1
                /\ L[j].call = "POST"
                /\ Accepted(L[j].out)
        /\ \A j \in 1..n :
             L[j].call = "POST" =>
               L[j].input.Body.jobId = Unmarshal(records[k][L[j].rec]).payload.JobID
        /\ \A j \in 1..n :
             Failed(L[j]) => j = n /\ pc[k] = "returned" /\ err[k] # ""
        /\ \A i \in 1..Len(records[k]) :
             /\ DecodeFails(k, i) => idx[k] <= i /\ \A j \in 1..n : L[j].rec < i
             /\ DecodeFailed(k, i) => pc[k] = "returned" /\ err[k] # ""

\* C3's case: a batch of two whose first message failed at a status query;
\* the invocation has returned the error.
C3_Witness ==
  /\ Len(records[1]) = 2
  /\ idx[1] = 1
  /\ pc[1] = "returned" /\ err[1] # ""
  /\ Len(log) = 4
  /\ log[4].call = "DescribeTasks" /\ Failed(log[4])

\* Record i of invocation k, whose calls are L, went through every step.
Processed(k, L, i) ==
  /\ ~DecodeFails(k, i)
  /\ \E j \in CallsIn(L, i, "RunTask") : Launched(L[j])
  /\ \E j \in CallsIn(L, i, "DescribeTasks") :
       Observed(L[j]) /\ StatusOf(L[j]) \in {"RUNNING", "STOPPED"}
  /\ \E j \in CallsIn(L, i, "POST") : Accepted(L[j].out)

\* C4: handler returns nil exactly when every message of the batch was
\* decoded, launched, polled to RUNNING or STOPPED and its callback accepted;
\* once any step has failed the invocation does not return nil; an
\* invocation that ended by a panic did not process every message.
C4_SuccessIffEveryStepSucceeded ==
  \A k \in Invocations :
    LET L == LogOf(k)
        all == \A i \in 1..Len(records[k]) : Processed(k, L, i)
        failure == \/ \E j \in 1..Len(L) : Failed(L[j])
                   \/ \E i \in 1..Len(records[k]) : DecodeFailed(k, i)
    IN  /\ pc[k] = "returned" => (err[k] = "" <=> all)
        /\ pc[k] = "panicked" => ~all
        /\ failure => pc[k] = "returned" /\ err[k] # ""

\* C4's case: a batch of two returned nil; the first task ended STOPPED and
\* its callback, with result "failed", was accepted.
C4_Witness ==
  /\ pc[1] = "returned" /\ err[1] = ""
  /\ Len(records[1]) = 2
  /\ \E j \in CallsIn(log, 1, "POST") :
       /\ log[j].input.Body.result = "failed"
       /\ Accepted(log[j].out)
  /\ \E j \in CallsIn(log, 2, "POST") : log[j].input.Body.result = "succeeded"

\* C5: a message body that is not valid JSON aborts the invocation with the
\* decode error before any backend call for it.  No launch, status query or
\* callback is ever logged for such a record, the loop never passes it, and
\* once it has been decoded handler has returned the decode error.
C5_MalformedBodyMakesNoCall ==
  \A k \in Invocations :
    \A i \in 1..Len(records[k]) :
      records[k][i].json = "malformed" =>
        /\ \A j \in 1..Len(log) : log[j].inv = k => log[j].rec # i
        /\ idx[k] <= i
        /\ (idx[k] = i /\ pc[k] # "decode") =>
             pc[k] = "returned" /\ err[k] = "invalid character"

\* C5's case: the second message of a batch is not JSON; the first was
\* processed, the second caused no call, and handler returned the error.
C5_Witness ==
  /\ Len(records[1]) = 2
  /\ records[1][2].json = "malformed"
  /\ idx[1] = 2
  /\ pc[1] = "returned" /\ err[1] = "invalid character"
  /\ Len(log) > 0 /\ log[Len(log)].rec = 1

\* C6: a failed launch is not retried.  A RunTask call that returned an error
\* is the only launch of its message, no status query and no callback is made
\* for that message, and handler has returned the launch error.
C6_LaunchFailureNotRetried ==
  \A k \in Invocations :
    LET L == LogOf(k)
    IN  \A j \in 1..Len(L) :
          (L[j].call = "RunTask" /\ L[j].out.err # "") =>
            /\ CallsIn(L, L[j].rec, "RunTask") = {j}
            /\ CallsIn(L, L[j].rec, "DescribeTasks") = {}
            /\ CallsIn(L, L[j].rec, "POST") = {}
            /\ pc[k] = "returned"
            /\ err[k] = L[j].out.err

\* C6's case: the launch for the second message of a batch failed.
C6_Witness ==
  /\ idx[1] = 2
  /\ pc[1] = "returned" /\ err[1] = "RunTask: operation error"
  /\ log[Len(log)].call = "RunTask"
  /\ log[Len(log)].rec = 2
  /\ log[Len(log)].out.err # ""

\* C7: a status query that fails, or that returns no task, aborts polling.
\* Such a query is the last call of the invocation (it is not repeated and no
\* Sleep follows it), no callback is made for its message, and handler has
\* returned an error: the backend's error, or "failed to describe task"
\* followed by the task identifier when no task came back.
C7_QueryFailureAbortsPolling ==
  \A k \in Invocations :
    LET L == LogOf(k)
    IN  \A j \in 1..Len(L) :
          (L[j].call = "DescribeTasks"
             /\ (L[j].out.err # "" \/ Len(L[j].out.Tasks) = 0)) =>
            /\ j = Len(L)
            /\ CallsIn(L, L[j].rec, "POST") = {}
            /\ pc[k] = "returned"
            /\ err[k] = IF L[j].out.err # "" THEN L[j].out.err
                        ELSE "failed to describe task " \o L[j].input.Tasks[1]

\* C7's case: after one status that did not end polling, the next query
\* returned no task.
C7_Witness ==
  /\ Len(log) = 4
  /\ Observed(log[2]) /\ log[3].call = "Sleep"
  /\ log[4].call = "DescribeTasks"
  /\ log[4].out.err = "" /\ Len(log[4].out.Tasks) = 0
  /\ pc[1] = "returned" /\ err[1] # ""

\* C8: the callback succeeds exactly when a response arrived, its status is
\* in 200..399 and its body could be read (a body that breaks off is a
\* transport error).  After an accepted response ADOCallback returns the body
\* without error and handler has gone on to the next record or, after the
\* last record, returned nil; after any other the callback returns an error,
\* the call is the last of the invocation and handler has returned that error.
C8_CallbackSucceedsIffStatusOK ==
  \A k \in Invocations :
    LET L == LogOf(k)
        n == Len(L)
    IN  \A j \in 1..n :
          L[j].call = "POST" =>
            IF Accepted(L[j].out)
            THEN /\ ADOCallbackResult(L[j].out) = [data |-> L[j].out.Body, err |-> ""]
                 /\ \/ idx[k] = L[j].rec /\ pc[k] = "returned" /\ err[k] = ""
                    \/ idx[k] > L[j].rec
            ELSE /\ ADOCallbackResult(L[j].out).err # ""
                 /\ j = n
                 /\ idx[k] = L[j].rec
                 /\ pc[k] = "returned"
                 /\ err[k] = ADOCallbackResult(L[j].out).err

\* C8's case: the callback of the first message got status 399 and was
\* accepted; the callback of the second, after launch and polling succeeded,
\* got status 500 and the invocation failed.
C8_Witness ==
  /\ pc[1] = "returned" /\ err[1] = "unexpected status code: 500"
  /\ \E j \in CallsIn(log, 1, "POST") : log[j].out.StatusCode = 399
  /\ \E j \in CallsIn(log, 2, "POST") : log[j].out.StatusCode = 500
  /\ \E j \in CallsIn(log, 2, "DescribeTasks") : Observed(log[j])

\* The string member key of a message body, "" when it has none.
Member(body, key) ==
  IF body.json = "object" /\ key \in DOMAIN body.members
       /\ body.members[key].json = "string"
  THEN body.members[key].s ELSE ""

\* C9: the Authorization header of every callback is "Bearer " followed by
\* the AuthToken of the message the callback is made for, as it stands in the
\* message.
C9_BearerIsRawToken ==
  \A j \in 1..Len(log) :
    log[j].call = "POST" =>
      log[j].input.Header.Authorization
        = "Bearer " \o Member(records[log[j].inv][log[j].rec], "AuthToken")

\* The configured callback target: the variables of the environment, with
\* the documented defaults.
ConfiguredDomain == IF env.ADO_DOMAIN = "" THEN "dev.azure.com" ELSE env.ADO_DOMAIN
ConfiguredOrg == env.ADO_ORG
ConfiguredVersion ==
  IF env.ADO_API_VERSION = "" THEN "7.1-preview.3" ELSE env.ADO_API_VERSION

MissingRequired ==
  \E i \in 1..Len(RequiredEnvVars) : env[RequiredEnvVars[i]] = ""

\* init() has ended, one way or another.
InitEnded == initPc \notin {"start", "adoCfg"}

\* C13: when a required configuration value is missing, init() ends the
\* process by os.Exit(1), a non-zero status, before init() completes and so
\* before any message is processed or any backend call is made; and the
\* process never completes init() with a required value missing.
C13_MissingRequiredExitsAtStartup ==
  MissingRequired =>
    /\ initPc # "done"
    /\ InitEnded =>
         /\ initPc = "exited"
         /\ exitStatus = <<1>>
         /\ exitStatus[1] # 0
         /\ log = <<>>
         /\ \A k \in Invocations : pc[k] = "idle"

\* C13's case: the organization alone is missing, the backend configuration
\* was read, and the process has exited.
C13_Witness ==
  /\ initPc = "exited"
  /\ exitStatus = <<1>>
  /\ env["ADO_ORG"] = ""
  /\ \A i \in 1..4 : env[RequiredEnvVars[i]] # ""
  /\ taskCfg.Cluster = "agents"
  /\ adoCfg = NilConfig

\* C15: with every required value present, init() completes and adoCfg
\* holds the values read from the environment.
C15_InitCompletesWithCallbackConfig ==
  (~MissingRequired /\ InitEnded) =>
    /\ initPc = "done"
    /\ exitStatus = <<>>
    /\ adoCfg = ADOConfigReadFromEnv(env)

\* C14: for every seed, the empty one included, the generated token is not
\* empty and at most 64 characters long.
C14_TokenLengthBetween1And64 ==
  pc[1] = "launch" =>
    /\ Len(taskCfg.ClientToken) >= 1
    /\ Len(taskCfg.ClientToken) <= 64

\* C14's case: the token of the empty seed, 44 characters.
C14_Witness ==
  /\ pc[1] = "launch"
  /\ records[1] = <<SeedBody("")>>
  /\ taskCfg.ClientToken = "47DEQpj8HBSa+/TImW+5JCeuQeRkm5NMpJWZG3hSuFU="

\* The launch requests made so far, and the authorization token of the
\* message a logged call was made for.
Launches == {j \in 1..Len(log) : log[j].call = "RunTask"}
AuthTokenOf(e) == Member(records[e.inv][e.rec], "AuthToken")

\* C11: over two invocations of one process, one after the other, the
\* second possibly with the message the first had, any two launch requests
\* for messages with the same authorization token are equal in every
\* parameter, and each carries the client token generated from that
\* authorization token and the parameters read from the environment, so
\* that a given authorization token gives at most one distinct request.
C11_SameTokenSameLaunchRequest ==
  /\ \A i \in Launches : \A j \in Launches :
       AuthTokenOf(log[i]) = AuthTokenOf(log[j]) => log[i].input = log[j].input
  /\ \A j \in Launches :
       log[j].input =
         [RunTaskInput(ECSTaskConfigReadFromEnv(env)) EXCEPT
            !.ClientToken = ClientTokenOf(AuthTokenOf(log[j]))]

\* C11's case: the first invocation launched a task for a message and failed
\* at the callback; the message came again and the second invocation made
\* the same launch request.
C11_Witness ==
  /\ records[1] = <<BodyA>> /\ records[2] = <<BodyA>>
  /\ pc[1] = "returned" /\ err[1] = "unexpected status code: 500"
  /\ pc[2] = "poll"
  /\ \E i \in Launches : \E j \in Launches :
       /\ log[i].inv = 1 /\ log[j].inv = 2
       /\ log[i].input = log[j].input
       /\ log[i].input.ClientToken = "bKE9UspwyIPg8LsQHkJaiehiTeUdstI5JZOvaoQRgJA="

\* C17: every launch request carries the client token generated from the
\* authorization token of the message its own invocation is processing, also
\* when two invocations run at the same time.
C17_LaunchTokenOfOwnMessage ==
  \A j \in Launches :
    log[j].input.ClientToken = ClientTokenOf(AuthTokenOf(log[j]))

\* The members of a message body that the token, the callback URL and the
\* callback body are made from.
NeededMembers ==
  {"AuthToken", "ProjectId", "HubName", "PlanId", "JobId", "TaskInstanceId"}

\* C19: a launch request is made only for a message whose body is an object
\* that holds every needed member as a string.
C19_LaunchOnlyForCompleteMessage ==
  \A j \in Launches :
    LET body == records[log[j].inv][log[j].rec]
    IN  /\ body.json = "object"
        /\ \A key \in NeededMembers :
             /\ key \in DOMAIN body.members
             /\ body.members[key].json = "string"

\* C16: the handler leaves the process-wide configuration as init() set it:
\* taskCfg and adoCfg hold what was read from the environment in every state
\* of every invocation.
C16_HandlerLeavesConfigUnchanged ==
  /\ taskCfg = ECSTaskConfigReadFromEnv(env)
  /\ adoCfg = ADOConfigReadFromEnv(env)

\* C20: polling starts only with the identifier of a launched task, and a
\* launch that returned no error and no task makes handler return an error:
\* the first element of the empty list is not read.
C20_EmptyLaunchIsErrorReturn ==
  /\ \A k \in Invocations : pc[k] \in {"poll", "sleep"} => taskARN[k] \in TaskARNs
  /\ \A j \in Launches :
       (log[j].out.err = "" /\ Len(log[j].out.Tasks) = 0) =>
         /\ pc[log[j].inv] = "returned"
         /\ err[log[j].inv] # ""
         /\ err[log[j].inv] # "index out of range [0] with length 0"

\* C12: once the context of an invocation is cancelled during polling or the
\* callback, the handler issues no status query that the backend answers and
\* sends no callback, and when it returns it returns an error.
C12_CancelAbortsPollingAndCallback ==
  \A k \in Invocations :
    \A c \in 1..Len(log) :
      (log[c].call = "Cancel" /\ log[c].inv = k) =>
        /\ \A j \in (c + 1)..Len(log) :
             log[j].inv = k =>
               /\ log[j].call # "POST"
               /\ log[j].call = "DescribeTasks" => log[j].out = ContextCanceled
        /\ pc[k] = "returned" => err[k] # ""

\* The callback for record i has been sent.
PostSent(i) == \E j \in 1..Len(log) : log[j].call = "POST" /\ log[j].rec = i

\* Status queries were made for the record at hand, and all were answered
\* with a status that is neither RUNNING nor STOPPED.
OnlyOtherStatuses ==
  LET queries == CallsIn(log, idx[1], "DescribeTasks")
  IN  /\ queries # {}
      /\ \A j \in queries :
           Observed(log[j]) /\ StatusOf(log[j]) \notin {"RUNNING", "STOPPED"}

\* The last call made is a status query that failed or found no task.
LastQueryFailed ==
  /\ Len(log) > 0
  /\ log[Len(log)].call = "DescribeTasks"
  /\ ~Observed(log[Len(log)])

\* C18: polling has no limit of its own.  While the backend has answered
\* every query for the record with a status that is neither RUNNING nor
\* STOPPED, however many, the handler is still in the polling loop, has sent
\* no callback for the record and has not returned; polling that has begun
\* ends, with the callback stage when no query fails; and a callback stage
\* that is reached sends the callback.
C18_PollingEndsOnlyWhenBackendSaysSo ==
  /\ [](OnlyOtherStatuses =>
          /\ pc[1] \in {"poll", "sleep"}
          /\ ~PostSent(idx[1]))
  /\ (pc[1] \in {"poll", "sleep"}) ~>
       \/ pc[1] = "callback"
       \/ pc[1] = "returned" /\ LastQueryFailed
  /\ (pc[1] = "callback") ~> PostSent(1)

\* C18's case: the backend answered MaxWaits queries with other statuses and
\* then STOPPED, and the callback was sent.
C18_Witness ==
  /\ pc[1] = "returned"
  /\ waits[1] = MaxWaits
  /\ PostSent(1)
  /\ \E j \in CallsIn(log, 1, "DescribeTasks") :
       Observed(log[j]) /\ StatusOf(log[j]) = "STOPPED"

====
